---- MODULE Spec2Model ----
(***************************************************************************)
(* FaceManager::BuildFaces / AddNewFace / SortAllFaceNodes of              *)
(* src/components/core/src/managers/FaceManager.cpp as a state machine.    *)
(*                                                                         *)
(* C++ containers are 0-based; the sequences below are 1-based, so the     *)
(* C++ element a[i] is the TLA+ element a[i + 1].                          *)
(***************************************************************************)
EXTENDS Integers, Sequences, FiniteSets, TLC

\* ------------------------------------------------------------------------
\* Bounds of the model
\* ------------------------------------------------------------------------
NumNodes == 3               \* nodeManager->size(): node ids are 0..NumNodes-1
NumRegions == 1             \* elementManager->GetSubGroups().size()
NumSubRegions == 1          \* elemRegion->GetSubGroups().size()
NumElems == 2               \* elements of one subregion
NumFacesPerElement == 2     \* subRegion->numFacesPerElement()

\* std::numeric_limits<localIndex>::max(), the padding value of prism facets
LocalIndexMax == 2147483647

\* the value the adjacency arrays are filled with (an unoccupied slot)
Unset == -1

Nodes == 0 .. (NumNodes - 1)

\* ------------------------------------------------------------------------
\* Pure helpers
\* ------------------------------------------------------------------------
RECURSIVE InsertSorted(_, _)
InsertSorted(x, s) ==
  IF s = <<>> THEN <<x>>
  ELSE IF x <= Head(s) THEN <<x>> \o s
  ELSE <<Head(s)>> \o InsertSorted(x, Tail(s))

\* std::sort( tempNodeList.begin(), tempNodeList.end() )
RECURSIVE StdSort(_)
StdSort(s) == IF s = <<>> THEN <<>> ELSE InsertSorted(Head(s), StdSort(Tail(s)))

Range(f) == { f[x] : x \in DOMAIN f }

\* vector::pop_back
PopBack(s) == SubSeq(s, 1, Len(s) - 1)

\* vector::erase( iterator ) of the element at 1-based position j
EraseAt(s, j) == SubSeq(s, 1, j - 1) \o SubSeq(s, j + 1, Len(s))

\* vector::resize( n ) of a vector of vectors: new entries are empty
RECURSIVE ResizeTo(_, _)
ResizeTo(s, n) ==
  IF Len(s) >= n THEN SubSeq(s, 1, n) ELSE ResizeTo(Append(s, <<>>), n)

\* the position (kReg, kSubReg, ke, kelf) of the i-th incidence (i = 1..) in
\* the nested loops of lines 93-104, for subregions of numElems elements with
\* numFaces faces each
KReg(i, numElems, numFaces) == (i - 1) \div (NumSubRegions * numElems * numFaces)
KSubReg(i, numElems, numFaces) == ((i - 1) \div (numElems * numFaces)) % NumSubRegions
Ke(i, numElems, numFaces) == ((i - 1) \div numFaces) % numElems
Kelf(i, numFaces) == (i - 1) % numFaces

\* ------------------------------------------------------------------------
\* R1Tensor arithmetic on integer coordinates
\* ------------------------------------------------------------------------
VecSub(a, b) == << a[1] - b[1], a[2] - b[2], a[3] - b[3] >>
VecAdd(a, b) == << a[1] + b[1], a[2] + b[2], a[3] + b[3] >>
VecScale(k, a) == << k * a[1], k * a[2], k * a[3] >>
Dot(a, b) == a[1] * b[1] + a[2] * b[2] + a[3] * b[3]
Cross(a, b) == << a[2] * b[3] - a[3] * b[2],
                  a[3] * b[1] - a[1] * b[3],
                  a[1] * b[2] - a[2] * b[1] >>
Zero3 == << 0, 0, 0 >>

RECURSIVE VecSum(_)
VecSum(vs) == IF vs = <<>> THEN Zero3 ELSE VecAdd(Head(vs), VecSum(Tail(vs)))

\* where atan2( b, a ) lies in (-pi, pi]: 0 for (-pi,0), 1 for 0, 2 for (0,pi),
\* 3 for pi; atan2( 0, 0 ) is 0
AngleClass(a, b) ==
  IF b < 0 THEN 0
  ELSE IF b > 0 THEN 2
  ELSE IF a >= 0 THEN 1 ELSE 3

\* atan2( b1, a1 ) < atan2( b2, a2 ). Scaling all a by one positive factor and
\* all b by another keeps this order, so the unnormalised axes can be used
AngleLess(a1, b1, a2, b2) ==
  \/ AngleClass(a1, b1) < AngleClass(a2, b2)
  \/ /\ AngleClass(a1, b1) = AngleClass(a2, b2)
     /\ AngleClass(a1, b1) \in {0, 2}
     /\ a1 * b2 - b1 * a2 > 0

\* lines 408-422 left out: the list stays in the order of the sort
RotateNot(s, firstIndexIndex) == s

\* lines 418-422 without the wrap to the front: past the end the last entry
\* is taken again
RotateNoWrap(s, firstIndexIndex) ==
  [ n \in 1 .. Len(s) |->
      s[ (IF firstIndexIndex + (n - 1) < Len(s)
          THEN firstIndexIndex + (n - 1)
          ELSE Len(s) - 1) + 1 ] ]

\* the cyclic rotation of lines 408-422: start at C++ position firstIndexIndex
Rotate(s, firstIndexIndex) ==
  [ n \in 1 .. Len(s) |->
      s[ (IF firstIndexIndex + (n - 1) < Len(s)
          THEN firstIndexIndex + (n - 1)
          ELSE firstIndexIndex + (n - 1) - Len(s)) + 1 ] ]

\* operator< of std::pair<realT,int> on pairs ( theta, node ), theta given by
\* the two projections p = << v*ex, v*ey, node >>; with isNaN every theta is
\* NaN and compares false both ways
PairLess(p, q, isNaN) ==
  \/ ~isNaN /\ AngleLess(p[1], p[2], q[1], q[2])
  \/ /\ isNaN \/ ~AngleLess(q[1], q[2], p[1], p[2])
     /\ p[3] < q[3]

RECURSIVE InsertPair(_, _, _)
InsertPair(p, s, isNaN) ==
  IF s = <<>> THEN << p >>
  ELSE IF PairLess(Head(s), p, isNaN) THEN << Head(s) >> \o InsertPair(p, Tail(s), isNaN)
  ELSE << p >> \o s

\* sort( thetaOrder.begin(), thetaOrder.end() ), line 400
RECURSIVE SortPairs(_, _)
SortPairs(s, isNaN) ==
  IF s = <<>> THEN <<>> ELSE InsertPair(Head(s), SortPairs(Tail(s), isNaN), isNaN)

\* lines 409-417: the last position n with tempFaceNodes[n] = firstNodeIndex, 0
\* when there is none
RECURSIVE FirstIndexIndex(_, _, _)
FirstIndexIndex(s, firstNodeIndex, n) ==
  IF n = 0 THEN 0
  ELSE IF s[n] = firstNodeIndex THEN n - 1
  ELSE FirstIndexIndex(s, firstNodeIndex, n - 1)

\* lines 389-422 given the axes, all scaled by numFaceNodes: fcN is the sum of
\* the node coordinates
SortByAngle(XX, faceNodes, fcN, ex, ey) ==
  LET numFaceNodes == Len(faceNodes)
      isNaN == ex = Zero3 \/ ey = Zero3
      thetaOrder ==
        SortPairs([ n \in 1 .. numFaceNodes |->
                      << Dot(VecSub(VecScale(numFaceNodes, XX[faceNodes[n]]), fcN), ex),
                         Dot(VecSub(VecScale(numFaceNodes, XX[faceNodes[n]]), fcN), ey),
                         faceNodes[n] >> ], isNaN)
      tempFaceNodes == [ n \in 1 .. numFaceNodes |-> thetaOrder[n][3] ]
  IN Rotate(tempFaceNodes, FirstIndexIndex(tempFaceNodes, faceNodes[1], numFaceNodes))

\* the one element of a singleton set
TheOne(S) == CHOOSE x \in S : TRUE

\* SortFaceNodes with the test of line 430 as ez[2] >= 0, and nothing done
\* for a face of more than 2 nodes
SortFaceNodesSwapOnZero(XX, elementCenter, faceNodes) ==
  IF Len(faceNodes) # 2 THEN faceNodes
  ELSE IF Cross(VecSub(XX[faceNodes[2]], XX[faceNodes[1]]),
                VecSub(VecScale(2, elementCenter),
                       VecAdd(XX[faceNodes[1]], XX[faceNodes[2]])))[3] >= 0
       THEN << faceNodes[2], faceNodes[1] >>
       ELSE faceNodes

\* SortFaceNodes with the test of line 430 on ez[0] instead of ez[2], and
\* nothing done for a face of more than 2 nodes
SortFaceNodesWrongComponent(XX, elementCenter, faceNodes) ==
  IF Len(faceNodes) # 2 THEN faceNodes
  ELSE IF Cross(VecSub(XX[faceNodes[2]], XX[faceNodes[1]]),
                VecSub(VecScale(2, elementCenter),
                       VecAdd(XX[faceNodes[1]], XX[faceNodes[2]])))[1] > 0
       THEN << faceNodes[2], faceNodes[1] >>
       ELSE faceNodes

\* FaceManager::SortFaceNodes, lines 313-439, for a face of at least one node
\* whose nodes all have coordinates. All vectors are scaled by numFaceNodes so
\* that the face centre fc = sum / numFaceNodes needs no division; the scale
\* is positive and changes no sign and no order of angles.
\*   numFaceNodes = 2: swap iff ( ex x ey )[2] > 0 (lines 343-350, 427-436)
\*   numFaceNodes > 2: sort the pairs ( theta, node ) and rotate (389-422);
\*     when ex or ey has zero length the division by L2_Norm() makes every
\*     theta NaN, and the pairs compare by node alone
\*   numFaceNodes = 1: ex is NaN, ez[2] > 0 is false, nothing is swapped
SortFaceNodes(XX, elementCenter, faceNodes) ==
  LET numFaceNodes == Len(faceNodes) IN
  IF numFaceNodes < 2 THEN faceNodes
  ELSE
    TheOne({
      IF numFaceNodes = 2
      THEN LET ex == VecSub(XX[faceNodes[2]], XX[faceNodes[1]])
               ey == VecSub(ecN, fcN)
               ez == Cross(ex, ey)
           IN IF ez[3] > 0 THEN << faceNodes[2], faceNodes[1] >> ELSE faceNodes
      ELSE TheOne({ SortByAngle(XX, faceNodes, fcN, ex, Cross(VecSub(fcN, ecN), ex)) :
                      ex \in { VecSub(VecScale(numFaceNodes, XX[faceNodes[1]]), fcN) } })
      : fcN \in { VecSum([ n \in 1 .. numFaceNodes |-> XX[faceNodes[n]] ]) },
        ecN \in { VecScale(numFaceNodes, elementCenter) } })

\* ------------------------------------------------------------------------
\* Inputs: the facet node lists GetFaceNodes( ke, kelf, . ) returns
\* ------------------------------------------------------------------------
MinFacetNodes == 2
MaxFacetNodes == 3

IsInjective(s) == \A i, j \in 1 .. Len(s) : s[i] = s[j] => i = j

SeqsOfLen(S, n) == { s \in [1 .. n -> S] : IsInjective(s) }

\* well-formed facets: MinFacetNodes..MaxFacetNodes distinct nodes
Facets == UNION { SeqsOfLen(Nodes, n) : n \in MinFacetNodes .. MaxFacetNodes }

\* the incidences in the order of the loops of lines 93-104, given the node
\* list GetFaceNodes returns for each
MeshOf(facets, numElems, numFaces) ==
  [ i \in 1 .. Len(facets) |->
      [ kReg |-> KReg(i, numElems, numFaces), kSubReg |-> KSubReg(i, numElems, numFaces),
        ke |-> Ke(i, numElems, numFaces), kelf |-> Kelf(i, numFaces),
        nodes |-> facets[i] ] ]

NumIncidences(numElems) == NumRegions * NumSubRegions * numElems * NumFacesPerElement

\* msh is a mesh of 1..NumElems elements per subregion with facets from F
IsMeshOver(msh, F) ==
  \E n \in 1 .. NumElems :
    \E facets \in [1 .. NumIncidences(n) -> F] :
      msh = MeshOf(facets, n, NumFacesPerElement)

\* the element (kReg, kSubReg, ke) of an incidence
ElementOf(m) == << m.kReg, m.kSubReg, m.ke >>

\* the entry of m_toFacesRelation an incidence writes: subRegion is looked up
\* by kSubReg alone (line 99), then indexed by ( ke, kelf )
RelationKey(m) == << m.kSubReg, m.ke, m.kelf >>

\* nodeManager.referencePosition(): the corners of a lattice of unit cubes
XTable == [ n \in Nodes |-> << n % 2, (n \div 2) % 2, n \div 4 >> ]

\* subRegion->GetElementCenter( ke, nodeManager, true ) of the elements: above
\* the lattice for even ke, below it for odd ke
CenterTable(msh) ==
  [ e \in { ElementOf(msh[i]) : i \in 1 .. Len(msh) } |->
      IF e[3] % 2 = 0 THEN << 0, 0, 1 >> ELSE << 1, 1, -1 >> ]

VARIABLES
  X,                    \* nodeManager.referencePosition()
  elementCenter,        \* GetElementCenter of each element (kReg, kSubReg, ke)
  mesh,                 \* mesh[i]: node list of the i-th incidence in loop order
  pc,                   \* "start", "build", "sort", "done" or "crashed"
  inc,                  \* 1-based position of the incidence loops of BuildFaces
  tempFaceToNodeMap,    \* Array1dT<lArray1d>
  numFaces,             \* localIndex numFaces
  facesByLowestNode,    \* Array1dT<lArray1d>
  elemRegionList,       \* Array2dT<int32>, rows of two slots
  elemSubRegionList,
  elemList,
  toFacesRelation,      \* subRegion->m_toFacesRelation( ke, kelf )
  nodeList,             \* viewKeys.nodeList (faceToNodes)
  size,                 \* ObjectManagerBase::size()
  kf                    \* loop variable of SortAllFaceNodes

\* the state of the CompositionalMultiphaseStatistics task and of the mesh it
\* reports on
VARIABLES
  m_solver,                   \* the solver Base::postProcessInput looked up
  m_computeCFLNumbers,        \* integer flag of the input file
  m_computeRegionStatistics,  \* integer flag of the input file
  meshFields,                 \* what the fields of each subregion hold
  regionStatistics,           \* the RegionStatistics wrapper of each region
  registeredFields,           \* fields registerDataOnMesh put on the subregions
  task,                       \* position of the task in its life cycle
  target,                     \* mesh target the loop of execute is at
  calls,                      \* completed calls of execute
  ran,                        \* what the running call of execute has called
  fieldsRead,                 \* fields computeCFLNumbers asked the subregions for
  result,                     \* what the last call of execute returned
  reported                    \* the region statistics at the end of each call

faceVars == << X, elementCenter, mesh, pc, inc, tempFaceToNodeMap, numFaces,
               facesByLowestNode, elemRegionList, elemSubRegionList, elemList,
               toFacesRelation, nodeList, size, kf >>

taskVars == << m_solver, m_computeCFLNumbers, m_computeRegionStatistics, meshFields,
               regionStatistics, registeredFields, task, target, calls, ran,
               fieldsRead, result, reported >>

vars == << faceVars, taskVars >>

\* no statistics task is part of the run: the members are as the constructor
\* leaves them (lines 176-196)
NoTask ==
  /\ m_solver = "nullptr"
  /\ m_computeCFLNumbers = 0
  /\ m_computeRegionStatistics = 1
  /\ meshFields = << >>
  /\ regionStatistics = << >>
  /\ registeredFields = {}
  /\ task = "none"
  /\ target = 0
  /\ calls = 0
  /\ ran = << >>
  /\ fieldsRead = {}
  /\ result = "none"
  /\ reported = << >>

adjacency == << elemRegionList, elemSubRegionList, elemList >>

\* the state after the constructor: the three adjacency arrays are resize2(0,2)
InitState ==
  /\ pc = "start"
  /\ inc = 1
  /\ tempFaceToNodeMap = <<>>
  /\ numFaces = 0
  /\ facesByLowestNode = <<>>
  /\ elemRegionList = <<>>
  /\ elemSubRegionList = <<>>
  /\ elemList = <<>>
  /\ toFacesRelation = [ k \in { RelationKey(mesh[i]) : i \in 1 .. Len(mesh) } |-> Unset ]
  /\ nodeList = <<>>
  /\ size = 0
  /\ kf = 0
  /\ NoTask

Init ==
  /\ IsMeshOver(mesh, Facets)
  /\ X = XTable
  /\ elementCenter = CenterTable(mesh)
  /\ InitState

\* lines 75-91: locals, resize of the adjacency arrays to 2*nodeManager->size()
\* rows, all slots -1
BeginBuildFaces ==
  /\ pc = "start"
  /\ pc' = "build"
  /\ tempFaceToNodeMap' = <<>>
  /\ numFaces' = 0
  /\ facesByLowestNode' = <<>>
  /\ elemRegionList' = [r \in 1 .. (2 * Cardinality(DOMAIN X)) |-> <<Unset, Unset>>]
  /\ elemSubRegionList' = [r \in 1 .. (2 * Cardinality(DOMAIN X)) |-> <<Unset, Unset>>]
  /\ elemList' = [r \in 1 .. (2 * Cardinality(DOMAIN X)) |-> <<Unset, Unset>>]
  /\ UNCHANGED << X, elementCenter, mesh, inc, toFacesRelation, nodeList, size, kf >>
  /\ UNCHANGED taskVars

\* the if/else of lines 164-175 and 275-286 applied to C++ row `row`: the test
\* reads elemRegionList only, slot 0 is written when it holds -1, else slot 1
SlotOf(row) == IF elemRegionList[row + 1][1] = Unset THEN 1 ELSE 2

WriteRow(arr, row, val) == [arr EXCEPT ![row + 1][SlotOf(row)] = val]

\* the three assignments of lines 166-168 / 172-174 / 277-279 / 283-285; a row
\* outside the arrays is undefined behaviour: the process dies, or the write
\* lands outside the arrays and the run goes on
WriteAdjacency(row, kReg, kSubReg, ke) ==
  IF row < Len(elemRegionList)
  THEN /\ elemRegionList' = WriteRow(elemRegionList, row, kReg)
       /\ elemSubRegionList' = WriteRow(elemSubRegionList, row, kSubReg)
       /\ elemList' = WriteRow(elemList, row, ke)
       /\ pc' = pc
  ELSE /\ UNCHANGED adjacency
       /\ \E crash \in BOOLEAN : pc' = IF crash THEN "crashed" ELSE pc

\* FaceManager::AddNewFace, lines 248-290. fbl is facesByLowestNode as the
\* caller left it, low the value read as tempNodeList[0]
AddNewFace(kReg, kSubReg, ke, kelf, fbl, tempNodeList, low) ==
  /\ facesByLowestNode' = [fbl EXCEPT ![low + 1] = Append(@, numFaces)]
  /\ toFacesRelation' = [toFacesRelation EXCEPT ![<<kSubReg, ke, kelf>>] = numFaces]
  /\ tempFaceToNodeMap' = Append(tempFaceToNodeMap, tempNodeList)
  /\ WriteAdjacency(numFaces + 1, kReg, kSubReg, ke)
  /\ numFaces' = numFaces + 1 + 1

Min(S) == CHOOSE x \in S : \A y \in S : x <= y

\* lines 151-155 for the C++ face index e of a bucket: same size and std::equal.
\* e is read from tempFaceToNodeMap without a bounds check; past the end the
\* comparison reads whatever lies there: garbage[j] is what that read yields
ExistingFaceVerdict(e, tempNodeList, garbage) ==
  IF e < Len(tempFaceToNodeMap)
  THEN IF /\ Len(tempFaceToNodeMap[e + 1]) = Len(tempNodeList)
          /\ tempFaceToNodeMap[e + 1] = tempNodeList
       THEN "equal" ELSE "differ"
  ELSE garbage

\* lines 119-196: the search of the bucket of lowNode and what follows it
FindOrAddFace(kReg, kSubReg, ke, kelf, tempNodeList, lowNode) ==
  IF Len(facesByLowestNode) < lowNode + 1
  THEN AddNewFace(kReg, kSubReg, ke, kelf,
                  ResizeTo(facesByLowestNode, lowNode + 1), tempNodeList, lowNode)
  ELSE IF facesByLowestNode[lowNode + 1] = <<>>
  THEN AddNewFace(kReg, kSubReg, ke, kelf, facesByLowestNode, tempNodeList, lowNode)
  ELSE
    LET bucket == facesByLowestNode[lowNode + 1] IN
    \E garbage \in [1 .. Len(bucket) -> {"crash", "equal", "differ"}] :
      LET Verdict(j) == ExistingFaceVerdict(bucket[j], tempNodeList, garbage[j])
          hits == { j \in 1 .. Len(bucket) : Verdict(j) # "differ" }
      IN
      IF hits = {}
      THEN \* line 190: not a duplicate
           AddNewFace(kReg, kSubReg, ke, kelf, facesByLowestNode, tempNodeList, lowNode)
      ELSE
        LET j == Min(hits)
            existingFaceIndex == bucket[j]
        IN
        IF Verdict(j) = "crash"
        THEN /\ pc' = "crashed"
             /\ UNCHANGED << tempFaceToNodeMap, numFaces, facesByLowestNode,
                             adjacency, toFacesRelation >>
        ELSE \* lines 158-186: duplicate
             /\ WriteAdjacency(existingFaceIndex, kReg, kSubReg, ke)
             /\ toFacesRelation' =
                  [toFacesRelation EXCEPT ![<<kSubReg, ke, kelf>>] = existingFaceIndex]
             /\ facesByLowestNode' =
                  [facesByLowestNode EXCEPT ![lowNode + 1] = EraseAt(@, j)]
             /\ UNCHANGED << tempFaceToNodeMap, numFaces >>

\* line 110 left out: the padding value stays in the list
StripPaddingNever(raw) == raw

\* line 110: drop a trailing padding value
StripPadding(raw) == IF raw[Len(raw)] = LocalIndexMax THEN PopBack(raw) ELSE raw

\* one pass of the body of the kelf loop, lines 104-197
BuildFacesStep ==
  /\ pc = "build"
  /\ inc <= Len(mesh)
  /\ inc' = inc + 1
  /\ UNCHANGED << X, elementCenter, mesh, nodeList, size, kf >>
  /\ UNCHANGED taskVars
  /\ LET raw == mesh[inc].nodes
         kReg == mesh[inc].kReg
         kSubReg == mesh[inc].kSubReg
         ke == mesh[inc].ke
         kelf == mesh[inc].kelf
         tempNodeList == IF raw = <<>> THEN <<>> ELSE StdSort(StripPadding(raw))
     IN
     IF tempNodeList = <<>>
     THEN \* tempNodeList[size()-1] (line 110) or tempNodeList[0] (line 116) is
          \* read from an empty vector: the process dies or a stale value is read
          \E crash \in BOOLEAN, stale \in DOMAIN X :
            IF crash
            THEN /\ pc' = "crashed"
                 /\ UNCHANGED << tempFaceToNodeMap, numFaces, facesByLowestNode,
                                 adjacency, toFacesRelation >>
            ELSE FindOrAddFace(kReg, kSubReg, ke, kelf, tempNodeList, stale)
     ELSE FindOrAddFace(kReg, kSubReg, ke, kelf, tempNodeList, tempNodeList[1])

\* vector::resize( n ) of an adjacency array: rows past n are dropped, new rows
\* are value-initialised
ResizeRows(arr, n) ==
  [ r \in 1 .. n |-> IF r <= Len(arr) THEN arr[r] ELSE << 0, 0 >> ]

\* lines 203-218: resize( tempFaceToNodeMap.size() ) resizes every registered
\* array of the manager, then faceToNodes = tempFaceToNodeMap. The face sets
\* made from the node sets (lines 210-218) are not part of the state.
FinishBuildFaces ==
  /\ pc = "build"
  /\ inc > Len(mesh)
  /\ size' = Len(tempFaceToNodeMap)
  /\ nodeList' = tempFaceToNodeMap
  /\ elemRegionList' = ResizeRows(elemRegionList, Len(tempFaceToNodeMap))
  /\ elemSubRegionList' = ResizeRows(elemSubRegionList, Len(tempFaceToNodeMap))
  /\ elemList' = ResizeRows(elemList, Len(tempFaceToNodeMap))
  /\ kf' = 0
  /\ pc' = IF Len(tempFaceToNodeMap) = 0 THEN "done" ELSE "sort"
  /\ UNCHANGED << X, elementCenter, mesh, inc, tempFaceToNodeMap, numFaces,
                  facesByLowestNode, toFacesRelation >>
  /\ UNCHANGED taskVars

\* all orders of the elements of s
SeqPermutations(s) ==
  { [ i \in 1 .. Len(s) |-> s[p[i]] ] :
      p \in { q \in [1 .. Len(s) -> 1 .. Len(s)] : IsInjective(q) } }

\* one pass of the loop of FaceManager::SortAllFaceNodes, lines 302-310, with
\* the call of SortFaceNodes. Slot 0 of row kf names the reference element;
\* when it does not name an element of the mesh (-1, or the 0 of a new row of
\* a region that has no such element) GetRegion/GetSubRegion/GetElementCenter
\* index out of bounds: the process dies or some centre is read. An empty face,
\* or a face with a node that has no coordinates, is read out of bounds too.
SortAllFaceNodesStep ==
  /\ pc = "sort"
  /\ kf < size
  /\ LET key == << elemRegionList[kf + 1][1], elemSubRegionList[kf + 1][1],
                   elemList[kf + 1][1] >>
         faceNodes == nodeList[kf + 1]
     IN
     \E crash \in BOOLEAN, stale \in Range(elementCenter) :
       LET defined == key \in DOMAIN elementCenter
           center == IF defined THEN elementCenter[key] ELSE stale
           readable == faceNodes # <<>> /\ Range(faceNodes) \subseteq DOMAIN X
       IN
       IF (~defined \/ ~readable) /\ crash
       THEN /\ pc' = "crashed"
            /\ UNCHANGED << nodeList, kf >>
       ELSE /\ IF readable
               THEN nodeList' = [nodeList EXCEPT ![kf + 1] = SortFaceNodes(X, center, @)]
               ELSE \E p \in SeqPermutations(faceNodes) :
                      nodeList' = [nodeList EXCEPT ![kf + 1] = p]
            /\ kf' = kf + 1
            /\ pc' = IF kf + 1 = size THEN "done" ELSE "sort"
  /\ UNCHANGED << X, elementCenter, mesh, inc, tempFaceToNodeMap, numFaces,
                  facesByLowestNode, adjacency, toFacesRelation, size >>
  /\ UNCHANGED taskVars

Next ==
  \/ BeginBuildFaces
  \/ BuildFacesStep
  \/ FinishBuildFaces
  \/ SortAllFaceNodesStep

Spec == Init /\ [][Next]_vars

\* ------------------------------------------------------------------------
\* Two hexahedra sharing one quad face: 12 nodes, 12 incidences
\* ------------------------------------------------------------------------
\* the corner c = x + 2y + 4z of the unit cube, and the six quads of a
\* hexahedron by corner, each in cyclic order
HexFaces == << << 0, 2, 6, 4 >>, << 1, 3, 7, 5 >>, << 0, 1, 5, 4 >>,
               << 2, 3, 7, 6 >>, << 0, 1, 3, 2 >>, << 4, 5, 7, 6 >> >>

\* the node of corner c of hexahedron ke: hexahedron 0 has nodes 0..7,
\* hexahedron 1 lies against its face x = 1 and has the nodes 1, 3, 5, 7 of
\* that face and the new nodes 8..11
HexNode(ke, c) ==
  IF ke = 0 THEN c
  ELSE IF c % 2 = 0 THEN c + 1 ELSE 8 + (c \div 2)

\* coordinates in half units, so that the element centres are integers
HexX ==
  [ n \in 0 .. 11 |->
      IF n < 8 THEN << 2 * (n % 2), 2 * ((n \div 2) % 2), 2 * (n \div 4) >>
      ELSE << 4, 2 * ((n - 8) % 2), 2 * ((n - 8) \div 2) >> ]

HexCenters == ( << 0, 0, 0 >> :> << 1, 1, 1 >> ) @@ ( << 0, 0, 1 >> :> << 3, 1, 1 >> )

\* the facet of local face kelf of hexahedron ke, when the local faces of the
\* hexahedron are numbered from face[ke] and every node list starts at
\* position start[ke] of its cycle
HexFacet(ke, kelf, face, start) ==
  [ n \in 1 .. 4 |->
      HexNode(ke, HexFaces[((kelf + face[ke + 1]) % 6) + 1][((n - 1 + start[ke + 1]) % 4) + 1]) ]

HexMesh(face, start) ==
  MeshOf([ i \in 1 .. 12 |-> HexFacet(Ke(i, 2, 6), Kelf(i, 6), face, start) ], 2, 6)

HexInit ==
  /\ \E face \in [1 .. 2 -> 0 .. 5], start \in [1 .. 2 -> 0 .. 3] :
       mesh = HexMesh(face, start)
  /\ X = HexX
  /\ elementCenter = HexCenters
  /\ InitState

SpecHex == HexInit /\ [][Next]_vars

\* ------------------------------------------------------------------------
\* Meshes with facets below the minimum size
\* ------------------------------------------------------------------------
\* facets that have fewer than MinFacetNodes nodes once the padding is removed
ShortFacets ==
  UNION { { s, Append(s, LocalIndexMax) } :
            s \in UNION { SeqsOfLen(Nodes, n) : n \in 0 .. (MinFacetNodes - 1) } }

\* facets of exactly MinFacetNodes nodes, in increasing order
SmallestFacets == { s \in SeqsOfLen(Nodes, MinFacetNodes) : s = StdSort(s) }

MalformedInit ==
  /\ IsMeshOver(mesh, ShortFacets \cup SmallestFacets)
  /\ X = XTable
  /\ elementCenter = CenterTable(mesh)
  /\ InitState

SpecMalformed == MalformedInit /\ [][Next]_vars

\* ------------------------------------------------------------------------
\* Meshes with prism triangles: MaxFacetNodes nodes and one trailing padding
\* ------------------------------------------------------------------------
\* the triangle facets of a prism as GetFaceNodes returns them: a list of the
\* size of a quad whose last entry is the padding value
PaddedFacets == { Append(s, LocalIndexMax) : s \in SeqsOfLen(Nodes, MaxFacetNodes) }

PrismInit ==
  /\ IsMeshOver(mesh, PaddedFacets \cup SmallestFacets)
  /\ X = XTable
  /\ elementCenter = CenterTable(mesh)
  /\ InitState

SpecPrism == PrismInit /\ [][Next]_vars

\* ------------------------------------------------------------------------
\* Two-dimensional meshes: every facet is an edge of MinFacetNodes nodes
\* ------------------------------------------------------------------------
EdgesInit ==
  /\ IsMeshOver(mesh, SmallestFacets)
  /\ X = XTable
  /\ elementCenter = CenterTable(mesh)
  /\ InitState

SpecEdges == EdgesInit /\ [][Next]_vars

\* ------------------------------------------------------------------------
\* SortAllFaceNodes on a Face table of two Faces with one node list, each
\* with its own reference element: the node list, the node positions and the
\* two element centres are the inputs of SortFaceNodes
\* ------------------------------------------------------------------------
NumSortNodes == 7           \* nodes of the node manager
MaxSortFaceNodes == 4       \* longest node list of a Face

\* node positions in the plane z = 0: four nodes on one line, two off it on
\* either side, one at the position of node 1
SortPoints == << << 0, 0, 0 >>, << 1, 0, 0 >>, << 2, 0, 0 >>, << 3, 0, 0 >>,
                 << 0, 1, 0 >>, << -1, -1, 0 >>, << 1, 0, 0 >> >>

\* nodeManager.referencePosition(); nodes past the listed ones lie on the
\* lattice of unit cubes
SortX ==
  [ n \in 0 .. (NumSortNodes - 1) |->
      IF n < Len(SortPoints) THEN SortPoints[n + 1]
      ELSE << n % 2, (n \div 2) % 2, n \div 4 >> ]

\* GetElementCenter of a reference element: off the plane on either side, off
\* the plane above the line of the nodes, and in the plane on that line
SortCenters == { << 1, 1, 1 >>, << 1, -1, -1 >>, << 1, 0, 1 >>, << 1, 0, 0 >> }

\* the node lists of a Face: distinct nodes
SortFaces ==
  UNION { SeqsOfLen(DOMAIN SortX, n) : n \in MinFacetNodes .. MaxSortFaceNodes }

\* the state in which BuildFaces calls SortAllFaceNodes (line 222): two Faces,
\* slot 0 of Face kf names element kf of region 0, subregion 0
SortInit ==
  /\ X = SortX
  /\ \E c \in [ { << 0, 0, 0 >>, << 0, 0, 1 >> } -> SortCenters ] : elementCenter = c
  /\ \E faceNodes \in SortFaces : tempFaceToNodeMap = << faceNodes, faceNodes >>
  /\ nodeList = tempFaceToNodeMap
  /\ size = Len(tempFaceToNodeMap)
  /\ elemRegionList = << << 0, Unset >>, << 0, Unset >> >>
  /\ elemSubRegionList = << << 0, Unset >>, << 0, Unset >> >>
  /\ elemList = << << 0, Unset >>, << 1, Unset >> >>
  /\ mesh = << >>
  /\ toFacesRelation = << >>
  /\ facesByLowestNode = << >>
  /\ numFaces = 2 * Len(tempFaceToNodeMap)
  /\ inc = 1
  /\ kf = 0
  /\ pc = "sort"
  /\ NoTask

SpecSort == SortInit /\ [][SortAllFaceNodesStep]_vars

\* ------------------------------------------------------------------------
\* CompositionalMultiphaseStatistics: the task that reports region statistics
\* and CFL numbers of a compositional multiphase solver
\* ------------------------------------------------------------------------
NumMeshTargets == 2         \* mesh targets of the solver
NumStatRegions == 3         \* element regions, dealt to the targets in turn
NumStatSubRegions == 2      \* subregions of every region
NumPhases == 2              \* m_solver->numFluidPhases()
NumComps == 2               \* m_solver->numFluidComponents()
MaxExecutes == 2            \* calls of execute in a run
RealMax == 2147483647       \* LvArray::NumericLimits< real64 >::max

MeshTargets == 0 .. (NumMeshTargets - 1)
StatRegions == 0 .. (NumStatRegions - 1)
StatSubRegions == 0 .. (NumStatSubRegions - 1)
Phases == 0 .. (NumPhases - 1)
Comps == 0 .. (NumComps - 1)

\* regionNames of a mesh target
RegionNames(t) == { r \in StatRegions : r % NumMeshTargets = t }

\* what the pressure field of a subregion can hold: its largest cell value
PresValues == { -2, -1, 1 }

\* the values of the integer flags in the input file
FlagValues == { 0, 1, 2 }

\* the classes of m_solver: none, a CompositionalMultiphaseBase that is not
\* the hybrid solver, and CompositionalMultiphaseHybridFVM
Solvers == { "nullptr", "CompositionalMultiphaseFVM", "CompositionalMultiphaseHybridFVM" }

\* what StatisticsKernel::launch (lines 376-407) hands back for a subregion
\* whose largest pressure is p: the kernel reduces the fields of the subregion,
\* its results are a function of them
StatisticsKernel(p) ==
  [ subRegionAvgPresNumerator |-> p * (p + 2),
    subRegionMinPres |-> p - 1,
    subRegionMaxPres |-> p,
    subRegionMinDeltaPres |-> p - 1,
    subRegionMaxDeltaPres |-> p,
    subRegionAvgTempNumerator |-> (p + 4) * (p + 2),
    subRegionMinTemp |-> p + 3,
    subRegionMaxTemp |-> p + 4,
    subRegionTotalUncompactedPoreVol |-> p + 2,
    subRegionPhaseDynamicPoreVol |-> [ ip \in Phases |-> (p + 2) * (ip + 1) ],
    subRegionPhaseMass |-> [ ip \in Phases |-> (p + 2) * (ip + 2) ],
    subRegionTrappedPhaseMass |-> [ ip \in Phases |-> (p + 2) * ip ],
    subRegionImmobilePhaseMass |-> [ ip \in Phases |-> p + 2 ],
    subRegionDissolvedComponentMass |->
      [ ip \in Phases |-> [ ic \in Comps |-> (p + 2) * (ip + ic) ] ] ]

\* averagePressure and averageTemperature are the only members that are
\* divided: a value of them is a fraction << numerator, denominator >> in lowest
\* terms with a positive denominator, or << 1, 0 >>, << -1, 0 >>, << 0, 0 >> for
\* what a division by zero gives (inf, -inf, NaN)
RECURSIVE Gcd(_, _)
Gcd(a, b) == IF b = 0 THEN a ELSE Gcd(b, a % b)

Abs(a) == IF a < 0 THEN -a ELSE a

Sign(a) == IF a < 0 THEN -1 ELSE IF a > 0 THEN 1 ELSE 0

Fraction(a, b) ==
  IF b = 0 THEN << Sign(a), 0 >>
  ELSE LET g == Gcd(Abs(a), Abs(b)) IN << Sign(b) * (a \div g), Abs(b) \div g >>

\* x += n and x + y of such values: inf - inf and anything with NaN are NaN
FractionAdd(x, y) ==
  IF x[2] = 0 /\ y[2] = 0 THEN << IF x[1] = y[1] THEN x[1] ELSE 0, 0 >>
  ELSE IF x[2] = 0 THEN x
  ELSE IF y[2] = 0 THEN y
  ELSE Fraction(x[1] * y[2] + y[1] * x[2], x[2] * y[2])

\* x /= n for a number n
FractionDivide(x, n) ==
  IF x[2] = 0 THEN << IF n < 0 THEN -x[1] ELSE x[1], 0 >>
  ELSE Fraction(x[1], x[2] * n)

\* a RegionStatistics as registerWrapper makes it (line 237): the wrapper
\* value-initialises the struct, the arrays get their sizes in lines 242-246
NewRegionStatistics ==
  [ averagePressure |-> << 0, 1 >>, maxPressure |-> 0, minPressure |-> 0,
    maxDeltaPressure |-> 0, minDeltaPressure |-> 0,
    averageTemperature |-> << 0, 1 >>, maxTemperature |-> 0, minTemperature |-> 0,
    totalPoreVolume |-> 0, totalUncompactedPoreVolume |-> 0,
    phasePoreVolume |-> [ ip \in Phases |-> 0 ],
    phaseMass |-> [ ip \in Phases |-> 0 ],
    trappedPhaseMass |-> [ ip \in Phases |-> 0 ],
    immobilePhaseMass |-> [ ip \in Phases |-> 0 ],
    dissolvedComponentMass |-> [ ip \in Phases |-> [ ic \in Comps |-> 0 ] ] ]


\* lines 307-325 without line 307: averagePressure keeps what the call before
\* left in it
InitializeKeepsAverage(rs) ==
  [ rs EXCEPT !.maxPressure = 0, !.minPressure = RealMax,
              !.maxDeltaPressure = -RealMax, !.minDeltaPressure = RealMax,
              !.averageTemperature = << 0, 1 >>, !.maxTemperature = 0,
              !.minTemperature = RealMax,
              !.totalPoreVolume = 0, !.totalUncompactedPoreVolume = 0,
              !.phasePoreVolume = [ ip \in Phases |-> 0 ],
              !.phaseMass = [ ip \in Phases |-> 0 ],
              !.trappedPhaseMass = [ ip \in Phases |-> 0 ],
              !.immobilePhaseMass = [ ip \in Phases |-> 0 ],
              !.dissolvedComponentMass = [ ip \in Phases |-> [ ic \in Comps |-> 0 ] ] ]

\* Step 1, the body of the loop of lines 302-326 for one region
InitializeStatistics(rs) ==
  [ rs EXCEPT !.averagePressure = << 0, 1 >>,
              !.maxPressure = 0,
              !.minPressure = RealMax,
              !.maxDeltaPressure = -RealMax,
              !.minDeltaPressure = RealMax,
              !.averageTemperature = << 0, 1 >>,
              !.maxTemperature = 0,
              !.minTemperature = RealMax,
              !.totalPoreVolume = 0,
              !.totalUncompactedPoreVolume = 0,
              !.phasePoreVolume = [ ip \in Phases |-> 0 ],
              !.phaseMass = [ ip \in Phases |-> 0 ],
              !.trappedPhaseMass = [ ip \in Phases |-> 0 ],
              !.immobilePhaseMass = [ ip \in Phases |-> 0 ],
              !.dissolvedComponentMass = [ ip \in Phases |-> [ ic \in Comps |-> 0 ] ] ]

\* Step 2, lines 412-453: what the lambda adds to the statistics of the parent
\* region from the kernel results k of one subregion
IncrementStatistics(rs, k) ==
  [ rs EXCEPT
      !.averagePressure = FractionAdd(@, << k.subRegionAvgPresNumerator, 1 >>),
      !.minPressure = IF k.subRegionMinPres < @ THEN k.subRegionMinPres ELSE @,
      !.maxPressure = IF k.subRegionMaxPres > @ THEN k.subRegionMaxPres ELSE @,
      !.minDeltaPressure = IF k.subRegionMinDeltaPres < @ THEN k.subRegionMinDeltaPres ELSE @,
      !.maxDeltaPressure = IF k.subRegionMaxDeltaPres > @ THEN k.subRegionMaxDeltaPres ELSE @,
      !.averageTemperature = FractionAdd(@, << k.subRegionAvgTempNumerator, 1 >>),
      !.minTemperature = IF k.subRegionMinTemp < @ THEN k.subRegionMinTemp ELSE @,
      !.maxTemperature = IF k.subRegionMaxTemp > @ THEN k.subRegionMaxTemp ELSE @,
      !.totalUncompactedPoreVolume = @ + k.subRegionTotalUncompactedPoreVol,
      !.phasePoreVolume = [ ip \in Phases |-> @[ip] + k.subRegionPhaseDynamicPoreVol[ip] ],
      !.phaseMass = [ ip \in Phases |-> @[ip] + k.subRegionPhaseMass[ip] ],
      !.trappedPhaseMass = [ ip \in Phases |-> @[ip] + k.subRegionTrappedPhaseMass[ip] ],
      !.immobilePhaseMass = [ ip \in Phases |-> @[ip] + k.subRegionImmobilePhaseMass[ip] ],
      !.dissolvedComponentMass =
         [ ip \in Phases |->
             [ ic \in Comps |-> @[ip][ic] + k.subRegionDissolvedComponentMass[ip][ic] ] ] ]

\* forElementSubRegions (line 329) over the subregions n .. of region r, in
\* their order, on the fields `fields` of a rank
RECURSIVE IncrementFrom(_, _, _, _)
IncrementFrom(rs, fields, r, n) ==
  IF n = NumStatSubRegions THEN rs
  ELSE IncrementFrom(IncrementStatistics(rs, StatisticsKernel(fields[<< r, n >>])),
                     fields, r, n + 1)

\* the fields of the subregions the other rank of the run owns
RemoteFields ==
  [ k \in StatRegions \X StatSubRegions |->
      IF (k[1] + k[2]) % 2 = 0 THEN Min(PresValues) ELSE -Min(PresValues) - 1 ]

\* the statistics of region r on the other rank when it enters Step 3: it has
\* run Steps 1 and 2 on its own subregions
RemoteStatistics(r) ==
  IncrementFrom(InitializeStatistics(NewRegionStatistics), RemoteFields, r, 0)

MpiMin(a, b) == IF b < a THEN b ELSE a

MpiMax(a, b) == IF b > a THEN b ELSE a

RECURSIVE SumOver(_, _)
SumOver(f, n) == IF n = 0 THEN 0 ELSE f[n - 1] + SumOver(f, n - 1)

\* Step 3, lines 463-486 for one region: rs is the local value, other the value
\* the other rank contributes to each reduction
SynchronizeStatistics(rs, other) ==
  LET uncompacted == rs.totalUncompactedPoreVolume + other.totalUncompactedPoreVolume
      pore == [ ip \in Phases |-> rs.phasePoreVolume[ip] + other.phasePoreVolume[ip] ]
  IN
  [ rs EXCEPT
      !.minPressure = MpiMin(@, other.minPressure),
      !.maxPressure = MpiMax(@, other.maxPressure),
      !.minDeltaPressure = MpiMin(@, other.minDeltaPressure),
      !.maxDeltaPressure = MpiMax(@, other.maxDeltaPressure),
      !.minTemperature = MpiMin(@, other.minTemperature),
      !.maxTemperature = MpiMax(@, other.maxTemperature),
      !.totalUncompactedPoreVolume = uncompacted,
      !.totalPoreVolume = SumOver(pore, NumPhases),
      !.phasePoreVolume = pore,
      !.phaseMass = [ ip \in Phases |-> @[ip] + other.phaseMass[ip] ],
      !.trappedPhaseMass = [ ip \in Phases |-> @[ip] + other.trappedPhaseMass[ip] ],
      !.immobilePhaseMass = [ ip \in Phases |-> @[ip] + other.immobilePhaseMass[ip] ],
      !.dissolvedComponentMass =
         [ ip \in Phases |->
             [ ic \in Comps |-> @[ip][ic] + other.dissolvedComponentMass[ip][ic] ] ],
      !.averagePressure =
         FractionDivide(FractionAdd(@, other.averagePressure), uncompacted),
      !.averageTemperature =
         FractionDivide(FractionAdd(@, other.averageTemperature), uncompacted) ]


\* the test of line 202 without the dynamicCast: any solver is refused
IncompatibleInputAnySolver(solver, computeCFLNumbers) == computeCFLNumbers # 0

\* the test of line 202
IncompatibleInput(solver, computeCFLNumbers) ==
  solver = "CompositionalMultiphaseHybridFVM" /\ computeCFLNumbers # 0

\* the test of line 284 as a comparison with 1
RunsCFLNumbersOnOne(computeCFLNumbers) == computeCFLNumbers = 1

\* the test of line 284: an integer used as a condition
RunsCFLNumbers(computeCFLNumbers) == computeCFLNumbers # 0

\* the test of line 278
RunsRegionStatistics(computeRegionStatistics) == computeRegionStatistics # 0

\* the fields of lines 256-261, on every subregion of every target
CFLFields ==
  StatRegions \X StatSubRegions
    \X { "phaseOutflux", "componentOutflux", "phaseCFLNumber", "componentCFLNumber" }

\* the fields of the task computeCFLNumbers gets from the subregions: lines
\* 551-554 in Step 1, lines 621-627 in Step 3
CFLFieldsRead ==
  ( StatRegions \X StatSubRegions \X { "phaseOutflux", "componentOutflux" } )
    \cup ( StatRegions \X StatSubRegions
             \X { "phaseOutflux", "componentOutflux", "phaseCFLNumber", "componentCFLNumber" } )

\* no face manager is part of the run
NoFaces ==
  /\ X = << >>
  /\ elementCenter = << >>
  /\ mesh = << >>
  /\ pc = "none"
  /\ inc = 1
  /\ tempFaceToNodeMap = << >>
  /\ numFaces = 0
  /\ facesByLowestNode = << >>
  /\ elemRegionList = << >>
  /\ elemSubRegionList = << >>
  /\ elemList = << >>
  /\ toFacesRelation = << >>
  /\ nodeList = << >>
  /\ size = 0
  /\ kf = 0

\* the task after its constructor and the reading of its input: the flags are
\* what the input file says (defaults 0 and 1, lines 179-190), m_solver is the
\* solver the run gives the task, nullptr when it gives none
StatisticsInit ==
  /\ m_solver \in Solvers
  /\ m_computeCFLNumbers \in FlagValues
  /\ m_computeRegionStatistics \in FlagValues
  /\ meshFields \in [ StatRegions \X StatSubRegions -> PresValues ]
  /\ regionStatistics = << >>
  /\ registeredFields = {}
  /\ task = "constructed"
  /\ target = 0
  /\ calls = 0
  /\ ran = << >>
  /\ fieldsRead = {}
  /\ result = "none"
  /\ reported = << >>
  /\ NoFaces

\* postProcessInput, lines 198-208. Base::postProcessInput is outside the
\* source: the step is the one of a run in which it returns and has left the
\* solver it found in m_solver
PostProcessInput ==
  /\ task = "constructed"
  /\ m_solver # "nullptr"
  /\ task' = IF IncompatibleInput(m_solver, m_computeCFLNumbers)
             THEN "InputError" ELSE "postProcessed"
  /\ UNCHANGED << m_solver, m_computeCFLNumbers, m_computeRegionStatistics, meshFields,
                  regionStatistics, registeredFields, target, calls, ran, fieldsRead,
                  result, reported >>
  /\ UNCHANGED faceVars

\* registerDataOnMesh, lines 210-265; the generation of the xml schema calls
\* it on a task that has no solver (line 215)
RegisterDataOnMesh ==
  /\ \/ task = "postProcessed"
     \/ task = "constructed" /\ m_solver = "nullptr"
  /\ task' = "registered"
  /\ IF m_solver = "nullptr"
     THEN UNCHANGED << regionStatistics, registeredFields >>
     ELSE /\ regionStatistics' =
               IF m_computeRegionStatistics # 0
               THEN [ r \in StatRegions |-> NewRegionStatistics ]
               ELSE regionStatistics
          /\ registeredFields' =
               IF m_computeCFLNumbers # 0 THEN registeredFields \cup CFLFields
               ELSE registeredFields
  /\ UNCHANGED << m_solver, m_computeCFLNumbers, m_computeRegionStatistics, meshFields,
                  target, calls, ran, fieldsRead, result, reported >>
  /\ UNCHANGED faceVars

\* execute is entered, line 274. The events that call execute belong to a run
\* whose solver was found, and a run has MaxExecutes of them
BeginExecute ==
  /\ task \in { "registered", "returned" }
  /\ m_solver # "nullptr"
  /\ calls < MaxExecutes
  /\ task' = "targets"
  /\ target' = 0
  /\ ran' = [ computeRegionStatistics |-> [ t \in MeshTargets |-> 0 ],
              computeCFLNumbers |-> 0 ]
  /\ fieldsRead' = {}
  /\ result' = "none"
  /\ UNCHANGED << m_solver, m_computeCFLNumbers, m_computeRegionStatistics, meshFields,
                  regionStatistics, registeredFields, calls, reported >>
  /\ UNCHANGED faceVars

\* lines 278-280 with Step 1 of computeRegionStatistics (lines 302-326) for the
\* mesh target the loop is at; getReference throws for a region that has no
\* RegionStatistics
InitializeRegionStatistics ==
  /\ task = "targets"
  /\ target < NumMeshTargets
  /\ RunsRegionStatistics(m_computeRegionStatistics)
  /\ ran' = [ ran EXCEPT !.computeRegionStatistics[target] = @ + 1 ]
  /\ IF RegionNames(target) \subseteq DOMAIN regionStatistics
     THEN /\ regionStatistics' =
               [ r \in DOMAIN regionStatistics |->
                   IF r \in RegionNames(target)
                   THEN InitializeStatistics(regionStatistics[r])
                   ELSE regionStatistics[r] ]
          /\ task' = "step2"
     ELSE /\ task' = "crashed"
          /\ UNCHANGED regionStatistics
  /\ UNCHANGED << m_solver, m_computeCFLNumbers, m_computeRegionStatistics, meshFields,
                  registeredFields, target, calls, fieldsRead, result, reported >>
  /\ UNCHANGED faceVars

\* line 278 when the flag is zero: the lambda returns, the loop goes on
SkipRegionStatistics ==
  /\ task = "targets"
  /\ target < NumMeshTargets
  /\ ~RunsRegionStatistics(m_computeRegionStatistics)
  /\ target' = target + 1
  /\ UNCHANGED << m_solver, m_computeCFLNumbers, m_computeRegionStatistics, meshFields,
                  regionStatistics, registeredFields, task, calls, ran, fieldsRead,
                  result, reported >>
  /\ UNCHANGED faceVars

\* Step 2 of computeRegionStatistics, lines 329-455
IncrementRegionStatistics ==
  /\ task = "step2"
  /\ regionStatistics' =
       [ r \in DOMAIN regionStatistics |->
           IF r \in RegionNames(target)
           THEN IncrementFrom(regionStatistics[r], meshFields, r, 0)
           ELSE regionStatistics[r] ]
  /\ task' = "step3"
  /\ UNCHANGED << m_solver, m_computeCFLNumbers, m_computeRegionStatistics, meshFields,
                  registeredFields, target, calls, ran, fieldsRead, result, reported >>
  /\ UNCHANGED faceVars

\* Step 3 of computeRegionStatistics, lines 458-486, and the return to the
\* loop of execute
SynchronizeRegionStatistics ==
  /\ task = "step3"
  /\ regionStatistics' =
       [ r \in DOMAIN regionStatistics |->
           IF r \in RegionNames(target)
           THEN SynchronizeStatistics(regionStatistics[r], RemoteStatistics(r))
           ELSE regionStatistics[r] ]
  /\ target' = target + 1
  /\ task' = "targets"
  /\ UNCHANGED << m_solver, m_computeCFLNumbers, m_computeRegionStatistics, meshFields,
                  registeredFields, calls, ran, fieldsRead, result, reported >>
  /\ UNCHANGED faceVars

\* lines 284-287 with computeCFLNumbers, lines 534-685; getField throws for a
\* field the subregion does not have
ComputeCFLNumbers ==
  /\ task = "targets"
  /\ target = NumMeshTargets
  /\ RunsCFLNumbers(m_computeCFLNumbers)
  /\ ran' = [ ran EXCEPT !.computeCFLNumbers = @ + 1 ]
  /\ fieldsRead' = CFLFieldsRead
  /\ task' = IF CFLFieldsRead \subseteq registeredFields THEN "return" ELSE "crashed"
  /\ UNCHANGED << m_solver, m_computeCFLNumbers, m_computeRegionStatistics, meshFields,
                  regionStatistics, registeredFields, target, calls, result, reported >>
  /\ UNCHANGED faceVars

\* line 289
ReturnFromExecute ==
  /\ \/ task = "return"
     \/ /\ task = "targets"
        /\ target = NumMeshTargets
        /\ ~RunsCFLNumbers(m_computeCFLNumbers)
  /\ result' = "false"
  /\ calls' = calls + 1
  /\ reported' = Append(reported, regionStatistics)
  /\ task' = "returned"
  /\ UNCHANGED << m_solver, m_computeCFLNumbers, m_computeRegionStatistics, meshFields,
                  regionStatistics, registeredFields, target, ran, fieldsRead >>
  /\ UNCHANGED faceVars

StatisticsNext ==
  \/ PostProcessInput
  \/ RegisterDataOnMesh
  \/ BeginExecute
  \/ InitializeRegionStatistics
  \/ SkipRegionStatistics
  \/ IncrementRegionStatistics
  \/ SynchronizeRegionStatistics
  \/ ComputeCFLNumbers
  \/ ReturnFromExecute

SpecStatistics == StatisticsInit /\ [][StatisticsNext]_vars

\* ------------------------------------------------------------------------
\* Vocabulary of the properties
\* ------------------------------------------------------------------------
Incidences == 1 .. Len(mesh)

\* the unordered node set of an incidence, padding removed
IncidenceNodeSet(i) == Range(mesh[i].nodes) \ {LocalIndexMax}

\* the incidences that carry the node set of incidence i
Carriers(i) == { j \in Incidences : IncidenceNodeSet(j) = IncidenceNodeSet(i) }

\* the incidences the loops have gone through
Processed == 1 .. (inc - 1)

\* the faces of the Face table, by C++ index
FaceIndices == 0 .. (Len(nodeList) - 1)

FaceNodeSet(f) == Range(nodeList[f + 1])

\* the element named by slot s (1 or 2) of the adjacency row of C++ index f
SlotElement(f, s) ==
  << elemRegionList[f + 1][s], elemSubRegionList[f + 1][s], elemList[f + 1][s] >>

OccupiedSlots(f) ==
  IF f < Len(elemList) THEN { s \in 1 .. 2 : elemList[f + 1][s] # Unset } ELSE {}

BuildFacesReturned == pc = "done"

\* C1: after BuildFaces no two entries of the Face table have the same
\* unordered node set.
C1_NoTwoFacesWithSameNodeSet ==
  BuildFacesReturned =>
    \A f, g \in FaceIndices : f # g => FaceNodeSet(f) # FaceNodeSet(g)

\* the elements named by the occupied slots of the adjacency row of face f
AdjacentElements(f) == { SlotElement(f, s) : s \in OccupiedSlots(f) }

\* the faces of the Face table whose node set is that of incidence i
FacesOfIncidence(i) == { f \in FaceIndices : FaceNodeSet(f) = IncidenceNodeSet(i) }

\* C2: two incidences with the same unordered node set (in whatever order and
\* rotation) get exactly one Face, and its adjacency slots name both elements.
C2_SharedFacetGetsOneFaceWithBothElements ==
  BuildFacesReturned =>
    \A i, j \in Incidences :
      (i < j /\ Carriers(i) = {i, j}) =>
        /\ Cardinality(FacesOfIncidence(i)) = 1
        /\ \A f \in FacesOfIncidence(i) :
             { ElementOf(mesh[i]), ElementOf(mesh[j]) } \subseteq AdjacentElements(f)

\* C3: once a third incidence with the node set of two earlier incidences has
\* been processed, BuildFaces has ended in NonManifoldFaceError.
C3_ThirdIncidenceEndsInNonManifoldFaceError ==
  \A i \in Processed :
    Cardinality({ j \in Carriers(i) : j < i }) >= 2 => pc = "NonManifoldFaceError"

\* C4: after BuildFaces every face index below the number of stored node
\* lists has exactly 1 or exactly 2 occupied adjacency slots.
C4_EveryFaceHasOneOrTwoSlots ==
  BuildFacesReturned =>
    \A f \in FaceIndices : Cardinality(OccupiedSlots(f)) \in {1, 2}

\* the node list BuildFaces compares an incidence by (lines 110-113)
ComparedNodeList(i) ==
  IF mesh[i].nodes = <<>> THEN <<>> ELSE StdSort(StripPadding(mesh[i].nodes))

\* the faces created so far, by C++ index
CreatedFaces == 0 .. (Len(tempFaceToNodeMap) - 1)

\* the incidences processed so far that carry the node list stored for face f
CreatorsOf(f) ==
  { i \in Processed : ComparedNodeList(i) = tempFaceToNodeMap[f + 1] }

\* C5: in every state slot 1 of a row is set only if slot 0 is, every created
\* Face has slot 0 set to the element of the incidence that created it, and
\* SortAllFaceNodes never finds -1 in slot 0 of the row it reads.
C5_SlotZeroSetBeforeSlotOne ==
  /\ \A r \in 0 .. (Len(elemList) - 1) : 2 \in OccupiedSlots(r) => 1 \in OccupiedSlots(r)
  /\ pc \in {"build", "sort", "done"} =>
       \A f \in CreatedFaces :
         /\ 1 \in OccupiedSlots(f)
         /\ CreatorsOf(f) # {} => SlotElement(f, 1) = ElementOf(mesh[Min(CreatorsOf(f))])
  /\ (pc = "sort" /\ kf < size) => elemRegionList[kf + 1][1] # Unset

\* C6: after BuildFaces the back-reference of every incidence names a Face
\* with the node set of the incidence, and the element of the incidence is in
\* exactly one of the two adjacency slots of that Face.
C6_BackReferenceResolvesToFaceOfElement ==
  BuildFacesReturned =>
    \A i \in Incidences :
      LET f == toFacesRelation[RelationKey(mesh[i])] IN
      /\ f \in FaceIndices
      /\ FaceNodeSet(f) = IncidenceNodeSet(i)
      /\ Cardinality({ s \in OccupiedSlots(f) : SlotElement(f, s) = ElementOf(mesh[i]) }) = 1

\* C7: one sequential index per Face: the index kept in a bucket, the index
\* kept in a back-reference and the adjacency row are the index of the stored
\* node list, and every such index is below the number of stored node lists.
C7_OneSequentialIndexPerFace ==
  pc \in {"build", "sort", "done"} =>
    /\ \A n \in 1 .. Len(facesByLowestNode) :
         \A e \in Range(facesByLowestNode[n]) :
           /\ e \in CreatedFaces
           /\ tempFaceToNodeMap[e + 1] # <<>> => tempFaceToNodeMap[e + 1][1] = n - 1
    /\ \A i \in Processed :
         LET f == toFacesRelation[RelationKey(mesh[i])] IN
         /\ f \in CreatedFaces
         /\ tempFaceToNodeMap[f + 1] = ComparedNodeList(i)
         /\ ElementOf(mesh[i]) \in AdjacentElements(f)

\* every node set is carried by at most two incidences
Manifold == \A i \in Incidences : Cardinality(Carriers(i)) <= 2

\* C8: on a manifold input the faces with one occupied slot are those whose
\* node set is in one incidence, the faces with two occupied slots those
\* whose node set is in two incidences.
C8_BoundaryAndInteriorFaces ==
  (BuildFacesReturned /\ Manifold) =>
    \A f \in FaceIndices :
      LET n == Cardinality({ i \in Incidences : IncidenceNodeSet(i) = FaceNodeSet(f) }) IN
      /\ Cardinality(OccupiedSlots(f)) = 1 <=> n = 1
      /\ Cardinality(OccupiedSlots(f)) = 2 <=> n = 2

\* C9: for the two hexahedra BuildFaces yields 11 faces, one of them with both
\* adjacency slots set to the two elements, the other 10 with slot 0 alone.
C9_TwoHexahedraGiveElevenFaces ==
  BuildFacesReturned =>
    /\ Len(nodeList) = 11
    /\ \E f \in FaceIndices :
         /\ OccupiedSlots(f) = {1, 2}
         /\ AdjacentElements(f) = DOMAIN elementCenter
         /\ \A g \in FaceIndices \ {f} : OccupiedSlots(g) = {1}

\* the incidences whose node list is below the minimum facet size once the
\* padding is removed
MalformedIncidences ==
  { i \in Incidences : Len(ComparedNodeList(i)) < MinFacetNodes }

\* C10: once an incidence with fewer than the minimum number of nodes has been
\* processed, BuildFaces has ended in MalformedFacetError.
C10_ShortFacetEndsInMalformedFacetError ==
  \A i \in Processed \cap MalformedIncidences : pc = "MalformedFacetError"

\* the incidences whose node list ends with the padding value
PaddedIncidences ==
  { i \in Incidences : mesh[i].nodes # <<>>
                         /\ mesh[i].nodes[Len(mesh[i].nodes)] = LocalIndexMax }

LiveStep == Next /\ pc' # "crashed"

\* the values of a back-reference, and of the three entries of an adjacency
\* slot taken together
IndexValues == Unset .. (2 * Len(mesh))

SlotValues ==
  { << Unset, Unset, Unset >>, << 0, 0, 0 >> } \cup { ElementOf(mesh[i]) : i \in Incidences }

\* C12: BuildFaces is deterministic: in no state of a run do two continuations
\* on the same incidences and nodes differ in a Face node list, an adjacency
\* slot or an element back-reference, so two runs fed the same input end with
\* identical results.
C12_BuildFacesIsDeterministic ==
  /\ \A n \in 0 .. (Len(tempFaceToNodeMap) + 1) :
       ~ /\ ENABLED (LiveStep /\ Len(tempFaceToNodeMap') = n)
         /\ ENABLED (LiveStep /\ Len(tempFaceToNodeMap') # n)
  /\ \A k \in DOMAIN toFacesRelation : \A v \in IndexValues :
       ~ /\ ENABLED (LiveStep /\ toFacesRelation'[k] = v)
         /\ ENABLED (LiveStep /\ toFacesRelation'[k] # v)
  /\ \A r \in 1 .. Len(elemList) : \A s \in 1 .. 2 : \A v \in SlotValues :
       ~ /\ ENABLED (LiveStep /\ Len(elemList') = Len(elemList) /\ SlotElement(r - 1, s)' = v)
         /\ ENABLED (LiveStep /\ Len(elemList') = Len(elemList) /\ SlotElement(r - 1, s)' # v)
  /\ \A f \in 1 .. Len(nodeList) : \A p \in SeqPermutations(nodeList[f]) :
       ~ /\ ENABLED (LiveStep /\ nodeList'[f] = p)
         /\ ENABLED (LiveStep /\ nodeList'[f] # p)

\* how often x is in the list s
Count(s, x) == Cardinality({ i \in DOMAIN s : s[i] = x })

\* C13: a step of SortAllFaceNodes, with its call of SortFaceNodes, changes
\* only the order of a Face's node list: the number of Faces, the length of
\* every node list and the number of times each node is in it stay the same,
\* and the three adjacency arrays are unchanged.
C13_SortChangesOnlyNodeOrder ==
  [][ pc = "sort" =>
        /\ adjacency' = adjacency
        /\ Len(nodeList') = Len(nodeList)
        /\ \A f \in 1 .. Len(nodeList) :
             /\ Len(nodeList'[f]) = Len(nodeList[f])
             /\ \A n \in Range(nodeList[f]) \cup Range(nodeList'[f]) :
                  Count(nodeList'[f], n) = Count(nodeList[f], n) ]_vars

\* both Faces have been sorted and the order of a list of MaxSortFaceNodes
\* nodes is no longer the order on entry
C13_Witness ==
  /\ pc = "done"
  /\ kf = size
  /\ Len(nodeList[1]) = MaxSortFaceNodes
  /\ nodeList[1] # tempFaceToNodeMap[1]
  /\ Range(nodeList[1]) = Range(tempFaceToNodeMap[1])

\* the Faces SortAllFaceNodes has gone through, by C++ index
SortedFaces == { f \in FaceIndices : pc \in {"sort", "done"} /\ f < kf }

\* the node list of Face f when SortAllFaceNodes was called
EntryNodes(f) == tempFaceToNodeMap[f + 1]

\* the centre of the reference element of Face f
ReferenceCenter(f) == elementCenter[SlotElement(f, 1)]

\* the sum of the positions of the nodes of a list: its centroid times its
\* length
PositionSum(faceNodes) == VecSum([ n \in 1 .. Len(faceNodes) |-> X[faceNodes[n]] ])

\* the in-plane axes of a node list about its centroid, seen from the centre
\* c, both scaled by a positive factor: from the centroid to the first node,
\* and the normal direction ( centroid - c ) crossed with it
AxisX(faceNodes) ==
  VecSub(VecScale(Len(faceNodes), X[faceNodes[1]]), PositionSum(faceNodes))

AxisY(faceNodes, c) ==
  Cross(VecSub(PositionSum(faceNodes), VecScale(Len(faceNodes), c)), AxisX(faceNodes))

\* a node list of more than 2 nodes with an in-plane axis of length zero
ZeroLengthAxis(faceNodes, c) ==
  /\ Len(faceNodes) > 2
  /\ AxisX(faceNodes) = Zero3 \/ AxisY(faceNodes, c) = Zero3

\* C14: once SortFaceNodes has been called for a Face whose nodes give an
\* in-plane axis of length zero (collinear or coincident positions), the run
\* is in a geometry-error outcome; it has not gone on with some node order.
C14_DegenerateFaceEndsInGeometryError ==
  \A f \in SortedFaces :
    (SlotElement(f, 1) \in DOMAIN elementCenter
       /\ Range(EntryNodes(f)) \subseteq DOMAIN X
       /\ ZeroLengthAxis(EntryNodes(f), ReferenceCenter(f)))
      => pc = "GeometryError"

\* the node list of incidence i as the element gives it, padding removed
GivenNodeList(i) ==
  IF mesh[i].nodes = <<>> THEN <<>> ELSE StripPadding(mesh[i].nodes)

\* C15: after the full build of a manifold mesh the first node of every Face
\* of more than 2 nodes is the first node of the node list of the incidence
\* that created the Face (the earliest incidence with its node set), in that
\* element's own order.
C15_AnchorIsFirstNodeOfCreatingIncidence ==
  (BuildFacesReturned /\ Manifold) =>
    \A f \in FaceIndices :
      (Len(nodeList[f + 1]) > 2 /\ CreatorsOf(f) # {}) =>
        nodeList[f + 1][1] = GivenNodeList(Min(CreatorsOf(f)))[1]

\* C17: when a step of BuildFaces finds no existing Face and stores a node
\* list for a new one, the list stored is the node list of the incidence in
\* the element's own order, not the sorted copy the comparison uses.
C17_NewFaceKeepsOriginalNodeOrder ==
  [][ (pc = "build" /\ Len(tempFaceToNodeMap') = Len(tempFaceToNodeMap) + 1) =>
        tempFaceToNodeMap'[Len(tempFaceToNodeMap')] = GivenNodeList(inc) ]_vars

Reverse(s) == [ i \in 1 .. Len(s) |-> s[Len(s) + 1 - i] ]

\* for a list of 2 nodes: twice the z-component of
\* cross( X[node1] - X[node0], c - midpoint of the edge )
EdgeSide(faceNodes, c) ==
  Cross(VecSub(X[faceNodes[2]], X[faceNodes[1]]),
        VecSub(VecScale(2, c), VecAdd(X[faceNodes[1]], X[faceNodes[2]])))[3]

\* C16: two Faces of the same 2 nodes at distinct positions, oriented with
\* the centres of elements on opposite sides of the edge, end with reversed
\* node orders.
C16_OppositeSidesGiveReversedOrders ==
  \A f, g \in SortedFaces :
    (/\ Len(EntryNodes(f)) = 2
     /\ EntryNodes(g) = EntryNodes(f)
     /\ X[EntryNodes(f)[1]] # X[EntryNodes(f)[2]]
     /\ EdgeSide(EntryNodes(f), ReferenceCenter(f)) > 0
     /\ EdgeSide(EntryNodes(g), ReferenceCenter(g)) < 0)
      => nodeList[f + 1] = Reverse(nodeList[g + 1])

\* both Faces of an edge have been oriented, from elements on opposite sides
C16_Witness ==
  /\ pc = "done"
  /\ Len(nodeList[1]) = 2
  /\ {0, 1} \subseteq SortedFaces
  /\ X[nodeList[1][1]] # X[nodeList[1][2]]
  /\ EdgeSide(EntryNodes(0), ReferenceCenter(0)) > 0
  /\ EdgeSide(EntryNodes(1), ReferenceCenter(1)) < 0
  /\ nodeList[1] # nodeList[2]

\* node a of the list lies at a smaller polar angle than node b, about the
\* centroid of the list in the axes seen from the centre c
NodeAngleLess(faceNodes, c, a, b) ==
  LET V(n) == VecSub(VecScale(Len(faceNodes), X[n]), PositionSum(faceNodes)) IN
  AngleLess(Dot(V(a), AxisX(faceNodes)), Dot(V(a), AxisY(faceNodes, c)),
            Dot(V(b), AxisX(faceNodes)), Dot(V(b), AxisY(faceNodes, c)))

\* the list s of the nodes of faceNodes never goes down in polar angle
AngleSorted(faceNodes, c, s) ==
  \A i, j \in 1 .. Len(s) : i < j => ~NodeAngleLess(faceNodes, c, s[j], s[i])

\* C18: for a Face of more than 2 nodes SortFaceNodes leaves the list
\* starting at the node that was first on entry, and, when both in-plane axes
\* have a length, the list is a sequence sorted by polar angle rotated
\* cyclically to start at that node.
C18_AnchorPreserved ==
  \A f \in SortedFaces :
    Len(EntryNodes(f)) > 2 =>
      /\ nodeList[f + 1][1] = EntryNodes(f)[1]
      /\ ~ZeroLengthAxis(EntryNodes(f), ReferenceCenter(f)) =>
           \E k \in 0 .. (Len(EntryNodes(f)) - 1) :
             AngleSorted(EntryNodes(f), ReferenceCenter(f), Rotate(nodeList[f + 1], k))

\* a Face of MaxSortFaceNodes nodes with axes of non-zero length has been
\* sorted; its order has changed and its first node, the first node on entry,
\* is not the start of the sequence sorted by angle
C18_Witness ==
  /\ 0 \in SortedFaces
  /\ Len(EntryNodes(0)) = MaxSortFaceNodes
  /\ ~ZeroLengthAxis(EntryNodes(0), ReferenceCenter(0))
  /\ nodeList[1] # EntryNodes(0)
  /\ nodeList[1][1] = EntryNodes(0)[1]
  /\ ~AngleSorted(EntryNodes(0), ReferenceCenter(0), nodeList[1])

\* the 1-based position of node x in the list s
PositionIn(s, x) == CHOOSE i \in DOMAIN s : s[i] = x

\* in the list s, nodes of faceNodes at the same polar angle are in the order
\* they have in faceNodes
TiesKeepOrder(faceNodes, c, s) ==
  \A i, j \in 1 .. Len(s) :
    (/\ i < j
     /\ ~NodeAngleLess(faceNodes, c, s[i], s[j])
     /\ ~NodeAngleLess(faceNodes, c, s[j], s[i]))
      => PositionIn(faceNodes, s[i]) < PositionIn(faceNodes, s[j])

\* C19: for a Face of more than 2 nodes with in-plane axes of non-zero length
\* the list SortFaceNodes leaves is, up to the rotation to the first node, in
\* increasing polar angle about the centroid, and nodes at equal angle are in
\* the order they had in the list on entry, not in the order of their ids.
C19_SortedByAngleWithStableTies ==
  \A f \in SortedFaces :
    (Len(EntryNodes(f)) > 2 /\ ~ZeroLengthAxis(EntryNodes(f), ReferenceCenter(f))) =>
      \E k \in 0 .. (Len(EntryNodes(f)) - 1) :
        /\ AngleSorted(EntryNodes(f), ReferenceCenter(f), Rotate(nodeList[f + 1], k))
        /\ TiesKeepOrder(EntryNodes(f), ReferenceCenter(f), Rotate(nodeList[f + 1], k))

\* C20: for a Face of 2 nodes SortFaceNodes swaps the nodes exactly when the
\* z-component of cross( X[node1] - X[node0], centre - midpoint ) is > 0 on
\* entry, and that component taken for the order on exit is <= 0: the
\* reference element is on the right of the edge from node 0 to node 1.
C20_EdgeHasElementOnItsRight ==
  \A f \in SortedFaces :
    Len(EntryNodes(f)) = 2 =>
      /\ nodeList[f + 1] =
           IF EdgeSide(EntryNodes(f), ReferenceCenter(f)) > 0
           THEN Reverse(EntryNodes(f)) ELSE EntryNodes(f)
      /\ EdgeSide(nodeList[f + 1], ReferenceCenter(f)) <= 0

\* an edge with the reference element on its left has been swapped, and the
\* element is now strictly on its right
C20_Witness ==
  /\ 0 \in SortedFaces
  /\ Len(EntryNodes(0)) = 2
  /\ EdgeSide(EntryNodes(0), ReferenceCenter(0)) > 0
  /\ nodeList[1] = Reverse(EntryNodes(0))
  /\ EdgeSide(nodeList[1], ReferenceCenter(0)) < 0

\* the face indices kept in the buckets of facesByLowestNode
BucketEntries ==
  UNION { Range(facesByLowestNode[n]) : n \in 1 .. Len(facesByLowestNode) }

\* C21: in every state of the pass of BuildFaces each index kept in
\* facesByLowestNode[n] is a created Face whose lowest node id is n and whose
\* node set has been in exactly one incidence so far, and a Face whose node
\* set has been in two incidences is in no bucket.
C21_BucketsHoldFacesSeenOnce ==
  pc = "build" =>
    /\ \A n \in 1 .. Len(facesByLowestNode) :
         \A e \in Range(facesByLowestNode[n]) :
           /\ e \in CreatedFaces
           /\ tempFaceToNodeMap[e + 1] # <<>>
           /\ Min(Range(tempFaceToNodeMap[e + 1])) = n - 1
           /\ Cardinality(CreatorsOf(e)) = 1
    /\ \A f \in CreatedFaces :
         Cardinality(CreatorsOf(f)) >= 2 => f \notin BucketEntries

\* C22: every row at which a step of BuildFaces, AddNewFace included, reads
\* or writes the adjacency arrays is a row of the arrays, which have
\* 2 x ( number of nodes ) rows: the row after the first increment of
\* numFaces when a node list is stored, the matched index otherwise.
C22_AdjacencyRowWithinArrays ==
  [][ (pc = "build" /\ inc' = inc + 1) =>
        /\ Len(tempFaceToNodeMap') > Len(tempFaceToNodeMap) =>
             numFaces + 1 < Len(elemRegionList)
        /\ (Len(tempFaceToNodeMap') = Len(tempFaceToNodeMap)
              /\ toFacesRelation' # toFacesRelation) =>
             toFacesRelation'[RelationKey(mesh[inc])] < Len(elemRegionList) ]_vars

\* C23: SortFaceNodes is idempotent: applied once more to the node list it
\* has left for a Face, with the same node positions and the same element
\* centre, it leaves that list as it is.
C23_SortFaceNodesIsIdempotent ==
  \A f \in SortedFaces :
    (Len(EntryNodes(f)) >= 2 /\ nodeList[f + 1] = SortFaceNodes(X, ReferenceCenter(f), EntryNodes(f)))
      => SortFaceNodes(X, ReferenceCenter(f), nodeList[f + 1]) = nodeList[f + 1]

\* a Face of MaxSortFaceNodes nodes has been sorted and the first application
\* has changed the order of its list
C23_Witness ==
  /\ 0 \in SortedFaces
  /\ Len(EntryNodes(0)) = MaxSortFaceNodes
  /\ nodeList[1] # EntryNodes(0)
  /\ nodeList[1] = SortFaceNodes(X, ReferenceCenter(0), EntryNodes(0))

\* the largest element of a set of numbers
Max(S) == CHOOSE x \in S : \A y \in S : y <= x

\* the regions whose Step 2 has run and whose Step 3 has not: the local
\* accumulation over the subregions is done, the MPI reduction is to come
LocallyAccumulated ==
  IF task = "step3" THEN RegionNames(target) ELSE {}

\* the subRegionMaxPres the kernel hands back for the subregions of region r
SubRegionMaxPressures(r) ==
  { StatisticsKernel(meshFields[<< r, n >>]).subRegionMaxPres : n \in StatSubRegions }

\* C24: after the local accumulation of computeRegionStatistics and before
\* the MPI reduction, maxPressure of a region is the largest subRegionMaxPres
\* of its subregions, also when all of them are negative.
C24_MaxPressureIsLargestOfSubRegions ==
  \A r \in LocallyAccumulated :
    regionStatistics[r].maxPressure = Max(SubRegionMaxPressures(r))

\* the regions whose Step 1 has just run in the running call
JustInitialized ==
  IF task = "step2" THEN RegionNames(target) ELSE {}

\* C25: computeRegionStatistics resets every field it accumulates at the
\* start of each call: after Step 1 the statistics of a region hold nothing of
\* the call before, and two calls of execute on unchanged mesh fields end with
\* the same region statistics.
C25_EveryCallStartsFromResetFields ==
  /\ \A r \in JustInitialized :
       regionStatistics[r] = InitializeStatistics(NewRegionStatistics)
  /\ \A i, j \in 1 .. Len(reported) : reported[i] = reported[j]

\* a second call of execute has returned, region statistics were computed and
\* the first call left an average pressure other than zero in some region
C25_Witness ==
  /\ calls = MaxExecutes
  /\ calls >= 2
  /\ task = "returned"
  /\ RunsRegionStatistics(m_computeRegionStatistics)
  /\ \E r \in StatRegions : reported[1][r].averagePressure[1] # 0

\* postProcessInput has been called
PostProcessInputCalled == task \notin { "constructed", "none" } /\ m_solver # "nullptr"

\* C26: postProcessInput ends in an InputError exactly when m_solver is a
\* CompositionalMultiphaseHybridFVM and computeCFLNumbers is not zero; in
\* every other case it completes.
C26_InputErrorExactlyForHybridWithCFL ==
  PostProcessInputCalled =>
    /\ task = "InputError" <=>
         ( m_solver = "CompositionalMultiphaseHybridFVM" /\ m_computeCFLNumbers # 0 )
    /\ task # "InputError" => task \in { "postProcessed", "registered", "targets", "step2",
                                         "step3", "return", "returned" }

\* postProcessInput has thrown for a flag that is neither 0 nor 1
C26_Witness ==
  /\ task = "InputError"
  /\ m_computeCFLNumbers \notin { 0, 1 }

\* how often a call of execute is to call a function guarded by `flag`
OnceIfSet(flag) == IF flag # 0 THEN 1 ELSE 0

\* a call of execute has been entered
ExecuteEntered == task \in { "targets", "step2", "step3", "return", "returned", "crashed" }

\* C27: a call of execute calls computeCFLNumbers exactly when
\* computeCFLNumbers is not zero and computeRegionStatistics, once for each
\* mesh target, exactly when computeRegionStatistics is not zero, and returns
\* false in every case; with the flags as they were in registerDataOnMesh, and
\* a solver there, the outflux and CFL fields computeCFLNumbers gets from the
\* subregions are fields registerDataOnMesh has registered.
C27_ExecuteFollowsTheFlags ==
  ExecuteEntered =>
    /\ task # "crashed"
    /\ fieldsRead \subseteq registeredFields
    /\ ran.computeCFLNumbers <= OnceIfSet(m_computeCFLNumbers)
    /\ \A t \in MeshTargets :
         ran.computeRegionStatistics[t] <= OnceIfSet(m_computeRegionStatistics)
    /\ task = "returned" =>
         /\ result = "false"
         /\ ran.computeCFLNumbers = OnceIfSet(m_computeCFLNumbers)
         /\ \A t \in MeshTargets :
              ran.computeRegionStatistics[t] = OnceIfSet(m_computeRegionStatistics)

\* a call of execute has returned after it has run both functions, with flags
\* that are neither 0 nor 1, and computeCFLNumbers has read its fields
C27_Witness ==
  /\ task = "returned"
  /\ m_computeCFLNumbers \notin { 0, 1 }
  /\ m_computeRegionStatistics \notin { 0, 1 }
  /\ ran.computeCFLNumbers = 1
  /\ fieldsRead # {}

====
